---- MODULE Spec2Model ----
(***************************************************************************)
(* The 2048 engine of src/2048.py: the session state (board, score,        *)
(* game_status), the row resolution (compress, merge_tiles, move_row), the *)
(* orientation transforms (transpose_board, reverse_board), the spawn rule *)
(* (add_new_tile), the terminal predicate (is_game_over) and the two       *)
(* callbacks wired to the buttons: make_move(direction) and                *)
(* initialize_board().                                                     *)
(*                                                                         *)
(* A board is a sequence of BOARD_SIZE rows, each a sequence of BOARD_SIZE *)
(* naturals; Python index i is TLA+ index i + 1.                           *)
(***************************************************************************)
EXTENDS Integers, Sequences, FiniteSets, TLC

BOARD_SIZE == 4

\* the tile tested by the win check
TARGET == 2048

\* number of button callbacks followed from a position of a session
MaxCalls == 2

\* largest tile 2^MaxExp of the rows drawn to exercise move_row on its own
MaxExp == 3

\* a game that initialize_board() has just dealt is followed for FreshLag
\* callbacks fewer than a position: the later course of a game is covered by
\* Positions
FreshLag == 1

\* number of callbacks followed in a freshly dealt game
FreshCalls == IF MaxCalls > FreshLag THEN MaxCalls - FreshLag ELSE 0

Idx == 1..BOARD_SIZE

Min(a, b) == IF a <= b THEN a ELSE b

Directions == {"up", "down", "left", "right"}

VARIABLES
    board,                  \* st.session_state.board
    score,                  \* st.session_state.score
    game_status,            \* st.session_state.game_status
    direction,              \* the last callback: a direction, "new" or "none"
    entry_status,           \* game_status when the last callback was entered
    original_board,         \* make_move's snapshot of the board
    final_board,            \* make_move's resolved, re-oriented board
    total_score_increment,  \* make_move's sum of the rows' increments
    budget,                 \* number of callbacks still followed
    row_arg,                \* the argument of a move_row call made on its own
    row_result              \* what that call returned, <<>> before it

vars == <<board, score, game_status, direction, entry_status,
          original_board, final_board, total_score_increment, budget,
          row_arg, row_result>>

----------------------------------------------------------------------------
(* Pure helpers                                                            *)

ZeroRow == [i \in Idx |-> 0]

ZeroBoard == [r \in Idx |-> ZeroRow]

IsNonZero(v) == v # 0

RECURSIVE Zeros(_)
Zeros(n) == IF n <= 0 THEN <<>> ELSE <<0>> \o Zeros(n - 1)

\* def compress(row)
compress(row) ==
    LET new_row == SelectSeq(row, IsNonZero)
    IN  new_row \o Zeros(BOARD_SIZE - Len(new_row))

\* merge_loop with "row[i] *= 2" mistyped as "row[i] += 2"
RECURSIVE merge_loop_plus_two(_, _, _)
merge_loop_plus_two(row, i, score_increment) ==
    IF i > BOARD_SIZE - 1
    THEN <<row, score_increment>>
    ELSE IF row[i] = row[i + 1] /\ row[i] # 0
         THEN merge_loop_plus_two([row EXCEPT ![i] = row[i] + 2, ![i + 1] = 0],
                                  i + 1, score_increment + row[i] + 2)
         ELSE merge_loop_plus_two(row, i + 1, score_increment)

\* merge_loop with the score line before the doubling: it adds the old value
RECURSIVE merge_loop_old_value(_, _, _)
merge_loop_old_value(row, i, score_increment) ==
    IF i > BOARD_SIZE - 1
    THEN <<row, score_increment>>
    ELSE IF row[i] = row[i + 1] /\ row[i] # 0
         THEN merge_loop_old_value([row EXCEPT ![i] = 2 * row[i], ![i + 1] = 0],
                                   i + 1, score_increment + row[i])
         ELSE merge_loop_old_value(row, i + 1, score_increment)

\* merge_loop without "row[i+1] = 0": the right tile of a merged pair stays
RECURSIVE merge_loop_keep_right(_, _, _)
merge_loop_keep_right(row, i, score_increment) ==
    IF i > BOARD_SIZE - 1
    THEN <<row, score_increment>>
    ELSE IF row[i] = row[i + 1] /\ row[i] # 0
         THEN merge_loop_keep_right([row EXCEPT ![i] = 2 * row[i]],
                                    i + 1, score_increment + 2 * row[i])
         ELSE merge_loop_keep_right(row, i + 1, score_increment)

\* merge_loop without "row[i] *= 2": the left tile of a merged pair keeps its
\* value
RECURSIVE merge_loop_no_double(_, _, _)
merge_loop_no_double(row, i, score_increment) ==
    IF i > BOARD_SIZE - 1
    THEN <<row, score_increment>>
    ELSE IF row[i] = row[i + 1] /\ row[i] # 0
         THEN merge_loop_no_double([row EXCEPT ![i + 1] = 0],
                                   i + 1, score_increment + 2 * row[i])
         ELSE merge_loop_no_double(row, i + 1, score_increment)

\* the for loop of merge_tiles, from (1-based) position i on
RECURSIVE merge_loop(_, _, _)
merge_loop(row, i, score_increment) ==
    IF i > BOARD_SIZE - 1
    THEN <<row, score_increment>>
    ELSE IF row[i] = row[i + 1] /\ row[i] # 0
         THEN merge_loop([row EXCEPT ![i] = 2 * row[i], ![i + 1] = 0],
                         i + 1, score_increment + 2 * row[i])
         ELSE merge_loop(row, i + 1, score_increment)

\* def merge_tiles(row): <<row, score_increment>>
merge_tiles(row) == merge_loop(row, 1, 0)

\* move_row scanning for merges a second time
move_row_rescan(row) ==
    LET merged == merge_tiles(compress(row))
        again  == merge_tiles(compress(merged[1]))
    IN  <<compress(again[1]), merged[2] + again[2]>>

\* move_row without the compress that follows the merge
move_row_no_second_compress(row) == merge_tiles(compress(row))

\* def move_row(row): <<row, score_increment>>
move_row(row) ==
    LET merged == merge_tiles(compress(row))
    IN  <<compress(merged[1]), merged[2]>>

\* def transpose_board(board)
transpose_board(b) == [r \in Idx |-> [c \in Idx |-> b[c][r]]]

\* def reverse_board(board)
reverse_board(b) == [r \in Idx |-> [c \in Idx |-> b[r][BOARD_SIZE + 1 - c]]]

\* is_game_over without the vertical comparison
is_game_over_rows_only(b) ==
    IF \E r \in Idx : \E c \in Idx : b[r][c] = 0
    THEN FALSE
    ELSE ~ \E r \in Idx : \E c \in 1..(BOARD_SIZE - 1) : b[r][c] = b[r][c + 1]

\* def is_game_over(board)
is_game_over(b) ==
    IF \E r \in Idx : \E c \in Idx : b[r][c] = 0
    THEN FALSE
    ELSE ~ \E r \in Idx : \E c \in 1..(BOARD_SIZE - 1) :
               b[r][c] = b[r][c + 1] \/ b[c][r] = b[c + 1][r]

\* empty_cells of add_new_tile
empty_cells(b) == {rc \in Idx \X Idx : b[rc[1]][rc[2]] = 0}

\* add_new_tile without the "== 0" filter: any cell may be overwritten
add_new_tile_any_cell(b) ==
    {[r \in Idx |-> [c \in Idx |-> IF <<r, c>> = rc THEN v ELSE b[r][c]]] :
         rc \in Idx \X Idx, v \in {2, 4}}

\* add_new_tile with 8 for the rarer tile
add_new_tile_eight(b) ==
    IF empty_cells(b) = {}
    THEN {b}
    ELSE {[r \in Idx |-> [c \in Idx |-> IF <<r, c>> = rc THEN v ELSE b[r][c]]] :
              rc \in empty_cells(b), v \in {2, 8}}

\* def add_new_tile(board): the boards the call can leave behind
add_new_tile(b) ==
    IF empty_cells(b) = {}
    THEN {b}
    ELSE {[r \in Idx |-> [c \in Idx |-> IF <<r, c>> = rc THEN v ELSE b[r][c]]] :
              rc \in empty_cells(b), v \in {2, 4}}

\* make_move: "Orient the board so the move is always Left"
orient(d, b) ==
    CASE d = "up"    -> transpose_board(b)
      [] d = "down"  -> transpose_board(reverse_board(b))
      [] d = "right" -> reverse_board(b)
      [] OTHER       -> b

\* the re-orientation of "down" written in the order of its orientation
reorient_same_order(d, b) ==
    CASE d = "up"    -> transpose_board(b)
      [] d = "down"  -> transpose_board(reverse_board(b))
      [] d = "right" -> reverse_board(b)
      [] OTHER       -> b

\* make_move: "Re-orient the board back"
reorient(d, b) ==
    CASE d = "up"    -> transpose_board(b)
      [] d = "down"  -> reverse_board(transpose_board(b))
      [] d = "right" -> reverse_board(b)
      [] OTHER       -> b

RECURSIVE SumSeq(_)
SumSeq(s) == IF s = <<>> THEN 0 ELSE Head(s) + SumSeq(Tail(s))

\* make_move: "Apply move logic", new_board
new_board_of(current_board) == [r \in Idx |-> move_row(current_board[r])[1]]

\* make_move: "Apply move logic", total_score_increment
increment_of(current_board) ==
    SumSeq([r \in Idx |-> move_row(current_board[r])[2]])

\* make_move: final_board for a direction
resolve(d, b) == reorient(d, new_board_of(orient(d, b)))

\* the win check recomputing the status from the board: won with a target
\* tile, playing without one
win_check_recomputed(b, status) ==
    IF \E r \in Idx : \E c \in Idx : b[r][c] = TARGET
    THEN "won"
    ELSE IF status = "lost" THEN "lost" ELSE "playing"

\* the win check comparing with > instead of membership
win_check_above(b, status) ==
    IF (\E r \in Idx : \E c \in Idx : b[r][c] > TARGET) /\ status # "won"
    THEN "won"
    ELSE status

\* make_move: "Check for 2048 win (does not stop the game)"
win_check(b, status) ==
    IF (\E r \in Idx : \E c \in Idx : b[r][c] = TARGET) /\ status # "won"
    THEN "won"
    ELSE status

\* the score overwritten by the increment instead of raised by it
new_score_overwritten(old_score, inc) == inc

\* make_move: new_score = score; new_score += total_score_increment
new_score_of(old_score, inc) == old_score + inc

\* make_move: the status guard at its head
move_allowed(status) == status \in {"playing", "won"}

\* the spawn and commit done whether or not the board changed
move_occurred_always(fb, ob) == TRUE

\* make_move: "Check if a move occurred"
move_occurred(fb, ob) == fb # ob

----------------------------------------------------------------------------
(* Callbacks                                                               *)

\* initialize_board whose second tile may land on the first
initial_boards_overlapping ==
    UNION {add_new_tile_any_cell(b) : b \in add_new_tile(ZeroBoard)}

\* the boards initialize_board() can store
initial_boards ==
    UNION {add_new_tile(b) : b \in add_new_tile(ZeroBoard)}

\* def initialize_board()
initialize_board ==
    /\ budget > 0
    /\ board' \in initial_boards
    /\ score' = 0
    /\ game_status' = "playing"
    /\ direction' = "new"
    /\ entry_status' = game_status
    /\ original_board' = ZeroBoard
    /\ final_board' = ZeroBoard
    /\ total_score_increment' = 0
    /\ budget' = Min(budget - 1, FreshCalls)
    /\ UNCHANGED <<row_arg, row_result>>

\* make_move with the win check placed before the no-op branch's game-over
\* check
make_move_win_first(d) ==
    /\ budget > 0
    /\ direction' = d
    /\ entry_status' = game_status
    /\ budget' = budget - 1
    /\ UNCHANGED <<row_arg, row_result>>
    /\ IF ~ move_allowed(game_status)
       THEN UNCHANGED <<board, score, game_status, original_board,
                        final_board, total_score_increment>>
       ELSE LET fb  == resolve(d, board)
                inc == increment_of(orient(d, board))
            IN  /\ original_board' = board
                /\ final_board' = fb
                /\ total_score_increment' = inc
                /\ IF move_occurred(fb, board)
                   THEN /\ board' \in add_new_tile(fb)
                        /\ score' = new_score_of(score, inc)
                        /\ game_status' = win_check(board', game_status)
                   ELSE /\ board' = board
                        /\ score' = score
                        /\ game_status' =
                             IF is_game_over(board)
                             THEN "lost"
                             ELSE win_check(board, game_status)

\* make_move with no status guard, declaring the game lost whenever the move
\* changed nothing, without consulting is_game_over
make_move_unguarded(d) ==
    /\ budget > 0
    /\ direction' = d
    /\ entry_status' = game_status
    /\ budget' = budget - 1
    /\ UNCHANGED <<row_arg, row_result>>
    /\ LET fb  == resolve(d, board)
           inc == increment_of(orient(d, board))
       IN  /\ original_board' = board
           /\ final_board' = fb
           /\ total_score_increment' = inc
           /\ IF move_occurred(fb, board)
              THEN /\ board' \in add_new_tile(fb)
                   /\ score' = new_score_of(score, inc)
                   /\ game_status' = win_check(board', game_status)
              ELSE /\ board' = board
                   /\ score' = score
                   /\ game_status' = win_check(board, "lost")

\* def make_move(direction)
make_move(d) ==
    /\ budget > 0
    /\ direction' = d
    /\ entry_status' = game_status
    /\ budget' = budget - 1
    /\ UNCHANGED <<row_arg, row_result>>
    /\ IF ~ move_allowed(game_status)
       THEN UNCHANGED <<board, score, game_status, original_board,
                        final_board, total_score_increment>>
       ELSE LET fb  == resolve(d, board)
                inc == increment_of(orient(d, board))
            IN  /\ original_board' = board
                /\ final_board' = fb
                /\ total_score_increment' = inc
                /\ IF move_occurred(fb, board)
                   THEN /\ board' \in add_new_tile(fb)
                        /\ score' = new_score_of(score, inc)
                        /\ game_status' = win_check(board', game_status)
                   ELSE /\ board' = board
                        /\ score' = score
                        /\ game_status' =
                             win_check(board, IF is_game_over(board)
                                              THEN "lost"
                                              ELSE game_status)

\* Session states reached by playing src/2048.py (make_move run on the
\* source, from the dealt board <<2,2,0,0>>, <<0,0,0,0>>, ..., with the outcomes
\* of random.choice and random.random chosen): each is the state some
\* make_move call returned with.
Positions ==
    { \* early game: "up" followed by a spawn in row 2 leaves rows 1 to 3
      \* full without equal neighbours and row 4 empty
      [board |-> << <<4, 32, 16, 2>>, <<2, 4, 2, 0>>,
                    <<4, 2, 4, 4>>, <<0, 0, 0, 0>> >>,
       score |-> 132, game_status |-> "playing"],
      \* two 1024 tiles side by side, no 2048 yet
      [board |-> << <<256, 1024, 1024, 512>>, <<32, 2, 8, 2>>,
                    <<8, 4, 2, 4>>, <<2, 2, 0, 0>> >>,
       score |-> 21624, game_status |-> "playing"],
      \* two 2048 tiles side by side
      [board |-> << <<2048, 2048, 1024, 4>>, <<16, 512, 256, 2>>,
                    <<4, 8, 2, 4>>, <<2, 2, 0, 0>> >>,
       score |-> 50220, game_status |-> "won"],
      \* one cell from a full board, small tiles
      [board |-> << <<4, 32, 16, 2>>, <<2, 4, 2, 4>>,
                    <<4, 2, 4, 2>>, <<2, 4, 0, 2>> >>,
       score |-> 132, game_status |-> "playing"],
      \* the spawn has filled the last cell: full, no equal neighbours
      [board |-> << <<4, 32, 16, 2>>, <<2, 4, 2, 4>>,
                    <<4, 2, 4, 2>>, <<2, 4, 2, 4>> >>,
       score |-> 132, game_status |-> "playing"],
      \* one cell from a full board that holds a 2048
      [board |-> << <<4, 256, 2048, 512>>, <<2, 8, 32, 8>>,
                    <<4, 2, 4, 2>>, <<2, 4, 0, 2>> >>,
       score |-> 23668, game_status |-> "won"],
      \* full, no equal neighbours, holds a 2048
      [board |-> << <<4, 256, 2048, 512>>, <<2, 8, 32, 8>>,
                    <<4, 2, 4, 2>>, <<2, 4, 2, 4>> >>,
       score |-> 23668, game_status |-> "won"],
      \* one cell from a full board that holds a 4096 and no 2048
      [board |-> << <<4096, 1024, 4, 2>>, <<16, 512, 256, 4>>,
                    <<0, 2, 4, 8>>, <<4, 4, 2, 4>> >>,
       score |-> 54320, game_status |-> "won"],
      \* full, no equal neighbours, holds a 4096 and no 2048
      [board |-> << <<4096, 1024, 4, 2>>, <<16, 512, 256, 4>>,
                    <<4, 2, 4, 8>>, <<2, 4, 2, 4>> >>,
       score |-> 54320, game_status |-> "won"] }

\* app(): 'board' not in st.session_state -> initialize_board(); or a session
\* picked up at one of Positions
Init ==
    /\ \/ /\ board \in initial_boards
          /\ score = 0
          /\ game_status = "playing"
          /\ budget = FreshCalls
       \/ \E p \in Positions :
             /\ board = p.board
             /\ score = p.score
             /\ game_status = p.game_status
             /\ budget = MaxCalls
    /\ direction = "none"
    /\ entry_status = "playing"
    /\ original_board = ZeroBoard
    /\ final_board = ZeroBoard
    /\ total_score_increment = 0
    /\ row_arg = ZeroRow
    /\ row_result = <<>>

Next ==
    \/ \E d \in Directions : make_move(d)
    \/ initialize_board

Spec == Init /\ [][Next]_vars

----------------------------------------------------------------------------
(* The row resolution on its own: move_row applied to every row over the   *)
(* tiles 0, 2, ..., 2^MaxExp.                                              *)

RECURSIVE Pow2(_)
Pow2(k) == IF k = 0 THEN 1 ELSE 2 * Pow2(k - 1)

\* the cell values of the rows drawn
RowTiles == {0} \cup {Pow2(k) : k \in 1..MaxExp}

RowInit ==
    /\ row_arg \in [Idx -> RowTiles]
    /\ row_result = <<>>
    /\ board = ZeroBoard
    /\ score = 0
    /\ game_status = "playing"
    /\ direction = "none"
    /\ entry_status = "playing"
    /\ original_board = ZeroBoard
    /\ final_board = ZeroBoard
    /\ total_score_increment = 0
    /\ budget = 0

\* new_row, score_increment = move_row(row)
call_move_row ==
    /\ row_result = <<>>
    /\ row_result' = move_row(row_arg)
    /\ UNCHANGED <<row_arg, board, score, game_status, direction, entry_status,
                   original_board, final_board, total_score_increment, budget>>

RowNext == call_move_row

RowSpec == RowInit /\ [][RowNext]_vars

----------------------------------------------------------------------------
(* Vocabulary of the properties                                            *)

Cells == Idx \X Idx

NonZeroCount(b) == Cardinality({rc \in Cells : b[rc[1]][rc[2]] # 0})

HasTile(b, v) == \E rc \in Cells : b[rc[1]][rc[2]] = v

\* the board upside down: row r becomes row BOARD_SIZE + 1 - r
VMirror(b) == [r \in Idx |-> b[BOARD_SIZE + 1 - r]]

\* no empty cell lies below a tile
BottomPacked(b) ==
    \A r \in 1..(BOARD_SIZE - 1) : \A c \in Idx :
        b[r][c] # 0 => b[r + 1][c] # 0

Full(b) == \A rc \in Cells : b[rc[1]][rc[2]] # 0

NoEqualNeighbours(b) ==
    /\ \A r \in Idx : \A c \in 1..(BOARD_SIZE - 1) : b[r][c] # b[r][c + 1]
    /\ \A r \in 1..(BOARD_SIZE - 1) : \A c \in Idx : b[r][c] # b[r + 1][c]

Terminal(b) == Full(b) /\ NoEqualNeighbours(b)

RECURSIVE IsPowerOfTwo(_)
IsPowerOfTwo(v) ==
    /\ v >= 2
    /\ \/ v = 2
       \/ v % 2 = 0 /\ IsPowerOfTwo(v \div 2)

\* the tiles of a line in the order the move meets them, empty cells dropped
RECURSIVE Tiles(_)
Tiles(line) ==
    IF line = <<>> THEN <<>>
    ELSE IF Head(line) = 0 THEN Tiles(Tail(line))
         ELSE <<Head(line)>> \o Tiles(Tail(line))

\* sum of the tiles that merging equal neighbours, each tile at most once,
\* produces from a sequence of tiles
RECURSIVE MergeGain(_)
MergeGain(tiles) ==
    IF Len(tiles) < 2 THEN 0
    ELSE IF tiles[1] = tiles[2]
         THEN 2 * tiles[1] + MergeGain(Tail(Tail(tiles)))
         ELSE MergeGain(Tail(tiles))

\* line k of the board as a move in direction d meets it
Line(d, b, k) ==
    CASE d = "left"  -> [i \in Idx |-> b[k][i]]
      [] d = "right" -> [i \in Idx |-> b[k][BOARD_SIZE + 1 - i]]
      [] d = "up"    -> [i \in Idx |-> b[i][k]]
      [] OTHER       -> [i \in Idx |-> b[BOARD_SIZE + 1 - i][k]]

Gain(d, b) == SumSeq([k \in Idx |-> MergeGain(Tiles(Line(d, b, k)))])

\* the last callback was a make_move that got past the status guard
Ran == direction \in Directions /\ entry_status \in {"playing", "won"}

\* ... and it changed the board
Moved == Ran /\ final_board # original_board

\* ... and it changed nothing
NoOp == Ran /\ final_board = original_board

ExampleBoard ==
    << <<2, 2, 0, 0>>, <<0, 0, 0, 0>>, <<0, 0, 0, 0>>, <<0, 0, 0, 0>> >>

----------------------------------------------------------------------------
(* Properties                                                              *)

\* C1: after make_move("down") the resolved board (before the spawn) is the
\* vertical mirror image of what "up" produces on the mirrored board, and no
\* empty cell lies below a tile in it.
C1_DownMirrorsUp ==
    (Ran /\ direction = "down") =>
        /\ final_board = VMirror(resolve("up", VMirror(original_board)))
        /\ BottomPacked(final_board)

\* C2: a make_move entered with a status other than lost on a full board with
\* no equal neighbours returns with status lost, whatever tiles the board
\* holds.
C2_TerminalIsLost ==
    (Ran /\ Terminal(original_board)) => game_status = "lost"

\* C3: in status lost a make_move leaves board, score and status unchanged;
\* only initialize_board leaves lost.
C3_LostAbsorbing ==
    [][game_status = "lost" =>
          \/ direction' = "new"
          \/ board' = board /\ score' = score /\ game_status' = "lost"]_vars

C3_Witness ==
    /\ direction \in Directions
    /\ entry_status = "lost"
    /\ game_status = "lost"
    /\ Terminal(board)

\* C4 as stated: a move that changes the board leaves exactly one more
\* non-zero cell than there was before the move.
C4_CountPlusOne ==
    Moved => NonZeroCount(board) = NonZeroCount(original_board) + 1

\* C4 as amended: a move that changes the board leaves exactly one more
\* non-zero cell than the resolved board has, which is at most one more than
\* before the move, and exactly one more when the move merged nothing.
C4_CountAfterSpawn ==
    Moved =>
        /\ NonZeroCount(board) = NonZeroCount(final_board) + 1
        /\ NonZeroCount(board) <= NonZeroCount(original_board) + 1
        /\ total_score_increment = 0 =>
               NonZeroCount(board) = NonZeroCount(original_board) + 1

C4_Witness ==
    /\ Moved
    /\ total_score_increment > 0
    /\ NonZeroCount(board) = NonZeroCount(final_board) + 1
    /\ NonZeroCount(board) < NonZeroCount(original_board) + 1

\* C5: when the resolved, re-oriented board equals the pre-move board, the
\* call leaves board and score as they were: no tile is spawned.
C5_NoOpFrame ==
    [][(direction' \in Directions /\ resolve(direction', board) = board) =>
          board' = board /\ score' = score]_vars

C5_Witness ==
    /\ NoOp
    /\ board = original_board
    /\ ~ Full(board)
    /\ score > 0

\* C6: every cell of the board is 0 or a power of two that is at least 2.
C6_TileValues ==
    \A rc \in Cells :
        board[rc[1]][rc[2]] = 0 \/ IsPowerOfTwo(board[rc[1]][rc[2]])

C6_Witness ==
    /\ Moved
    /\ total_score_increment > 0
    /\ \E rc \in Cells : /\ final_board[rc[1]][rc[2]] >= 8
                         /\ ~ HasTile(original_board, final_board[rc[1]][rc[2]])

\* C7: a make_move never lowers the score, and initialize_board leaves it 0.
C7_ScoreMonotonic ==
    [][/\ direction' \in Directions => score' >= score
       /\ direction' = "new" => score' = 0]_vars

C7_Witness ==
    /\ Moved
    /\ total_score_increment > 0
    /\ score > total_score_increment

\* C8: a move that changes the board adds to the score the sum of the tiles
\* its merges produce (nothing when it merges nothing); on the example board
\* with score 0, "left" makes row 1 <<4,0,0,0>> before the spawn and the
\* score 4.
C8_ScoreDelta ==
    [][(/\ direction' \in Directions
        /\ move_allowed(game_status)
        /\ resolve(direction', board) # board) =>
          /\ score' = score + Gain(direction', board)
          /\ (board = ExampleBoard /\ score = 0 /\ direction' = "left") =>
                 final_board'[1] = <<4, 0, 0, 0>> /\ score' = 4]_vars

C8_Witness ==
    /\ Moved
    /\ direction = "left"
    /\ original_board = ExampleBoard
    /\ final_board[1] = <<4, 0, 0, 0>>
    /\ score = 4

\* C9: once the status is won, no make_move sets it back to playing.
C9_WonSticky ==
    [][(game_status = "won" /\ direction' \in Directions) =>
          game_status' # "playing"]_vars

C9_Witness ==
    /\ Moved
    /\ entry_status = "won"
    /\ HasTile(original_board, TARGET)
    /\ ~ HasTile(board, TARGET)
    /\ game_status = "won"

\* C10: whenever a cell of the board holds the target value, the status is
\* won (so the call that first makes a target tile returns with won).
C10_WinDetected ==
    HasTile(board, TARGET) => game_status = "won"

C10_Witness ==
    /\ Moved
    /\ entry_status = "playing"
    /\ ~ HasTile(original_board, TARGET)
    /\ HasTile(board, TARGET)
    /\ game_status = "won"

\* C11: initialize_board, run in any state, leaves score 0, status playing
\* and a board with exactly two non-zero cells, each 2 or 4.
C11_NewGame ==
    [][direction' = "new" =>
          /\ score' = 0
          /\ game_status' = "playing"
          /\ NonZeroCount(board') = 2
          /\ \A rc \in Cells : board'[rc[1]][rc[2]] \in {0, 2, 4}]_vars

C11_Witness ==
    /\ direction = "new"
    /\ entry_status = "lost"
    /\ score = 0
    /\ game_status = "playing"
    /\ NonZeroCount(board) = 2

\* the tiles left when equal neighbours merge in one left-to-right pass, a
\* tile produced by a merge not merging again
RECURSIVE MergePairs(_)
MergePairs(tiles) ==
    IF Len(tiles) < 2 THEN tiles
    ELSE IF tiles[1] = tiles[2]
         THEN <<2 * tiles[1]>> \o MergePairs(Tail(Tail(tiles)))
         ELSE <<tiles[1]>> \o MergePairs(Tail(tiles))

PadRow(tiles) == tiles \o [i \in 1..(BOARD_SIZE - Len(tiles)) |-> 0]

\* C12: move_row merges each tile at most once per call: the result is the
\* tiles of the row with equal neighbours merged pairwise from the left,
\* padded with zeros; <<2,2,2,2>> gives <<4,4,0,0>> and 8, <<2,2,4,0>> and
\* <<4,2,2,0>> give <<4,4,0,0>> and 4.
C12_SinglePass ==
    row_result # <<>> =>
        /\ row_result[1] = PadRow(MergePairs(Tiles(row_arg)))
        /\ row_result[2] = MergeGain(Tiles(row_arg))
        /\ row_arg = <<2, 2, 2, 2>> => row_result = << <<4, 4, 0, 0>>, 8 >>
        /\ row_arg = <<2, 2, 4, 0>> => row_result = << <<4, 4, 0, 0>>, 4 >>
        /\ row_arg = <<4, 2, 2, 0>> => row_result = << <<4, 4, 0, 0>>, 4 >>

C12_Witness ==
    /\ row_arg = <<2, 2, 2, 2>>
    /\ row_result = << <<4, 4, 0, 0>>, 8 >>

LeftPacked(r) == \A i \in 1..(BOARD_SIZE - 1) : r[i] = 0 => r[i + 1] = 0

\* C13: move_row returns a row of length BOARD_SIZE in which no zero precedes
\* a tile, and two equal tiles with only empty cells between them merge:
\* <<0,2,0,2>> gives <<4,0,0,0>> and 4, <<2,0,2,4>> gives <<4,4,0,0>> and 4.
C13_LeftPacked ==
    row_result # <<>> =>
        /\ Len(row_result[1]) = BOARD_SIZE
        /\ LeftPacked(row_result[1])
        /\ (Len(Tiles(row_arg)) >= 2 /\ Tiles(row_arg)[1] = Tiles(row_arg)[2]) =>
               row_result[1][1] = 2 * Tiles(row_arg)[1]
        /\ row_arg = <<0, 2, 0, 2>> => row_result = << <<4, 0, 0, 0>>, 4 >>
        /\ row_arg = <<2, 0, 2, 4>> => row_result = << <<4, 4, 0, 0>>, 4 >>

C13_Witness ==
    /\ row_arg = <<2, 0, 2, 4>>
    /\ row_result = << <<4, 4, 0, 0>>, 4 >>

\* C14: is_game_over holds of a board exactly when resolving it in each of
\* the four directions leaves it unchanged.
C14_GameOverExact ==
    is_game_over(board) <=> \A d \in Directions : resolve(d, board) = board

\* C15: a make_move that changes nothing on a board with an empty cell or an
\* equal pair of neighbours leaves the status as it was, and a make_move that
\* changes the board never returns with status lost.
C15_LostOnlyFromTerminal ==
    [][(direction' \in Directions /\ move_allowed(game_status)) =>
          /\ (resolve(direction', board) = board /\ ~ Terminal(board)) =>
                 game_status' = game_status
          /\ resolve(direction', board) # board => game_status' # "lost"]_vars

C15_Witness ==
    /\ Moved
    /\ Terminal(board)
    /\ ~ Terminal(final_board)
    /\ game_status # "lost"

\* C16: whenever resolving the board in a direction changes it, the resolved
\* board has an empty cell for the spawn; on a full board add_new_tile
\* changes nothing.
C16_RoomForSpawn ==
    /\ \A d \in Directions :
           resolve(d, board) # board => ~ Full(resolve(d, board))
    /\ Moved => ~ Full(final_board)
    /\ Full(board) => add_new_tile(board) = {board}

C16_Witness ==
    /\ Moved
    /\ Full(original_board)
    /\ ~ Full(final_board)
    /\ Full(board)

\* C17: after a move that changed the board, the stored board differs from
\* the resolved board in exactly one cell, which was empty and now holds 2
\* or 4.
C17_SpawnEffect ==
    Moved =>
        \E rc \in Cells :
            /\ final_board[rc[1]][rc[2]] = 0
            /\ board[rc[1]][rc[2]] \in {2, 4}
            /\ \A other \in Cells \ {rc} :
                   board[other[1]][other[2]] = final_board[other[1]][other[2]]

C17_Witness ==
    /\ Moved
    /\ total_score_increment > 0
    /\ \E rc \in Cells : final_board[rc[1]][rc[2]] = 0 /\ board[rc[1]][rc[2]] = 4
    /\ NonZeroCount(final_board) >= 2

\* C18: for every direction the re-orientation undoes the orientation,
\* transposing twice and reversing twice give the board back, and "right"
\* resolves a board transposed twice as it resolves the board.
C18_OrientationRoundTrip ==
    /\ \A d \in Directions : reorient(d, orient(d, board)) = board
    /\ transpose_board(transpose_board(board)) = board
    /\ reverse_board(reverse_board(board)) = board
    /\ resolve("right", transpose_board(transpose_board(board)))
           = resolve("right", board)

C18_Witness ==
    /\ Moved
    /\ direction = "down"
    /\ orient("down", original_board) # original_board
    /\ transpose_board(original_board) # original_board
    /\ reverse_board(original_board) # original_board
    /\ reorient("down", orient("down", original_board)) = original_board

BoardSum(b) == SumSeq([r \in Idx |-> SumSeq(b[r])])

\* C20: resolving a board in any direction keeps the sum of its cells; after
\* a move that changed the board the sum is the old sum plus the spawned 2 or
\* 4, after one that changed nothing it is the old sum.
C20_SumConserved ==
    /\ \A d \in Directions : BoardSum(resolve(d, board)) = BoardSum(board)
    /\ Ran => BoardSum(final_board) = BoardSum(original_board)
    /\ Moved => BoardSum(board) - BoardSum(original_board) \in {2, 4}
    /\ NoOp => BoardSum(board) = BoardSum(original_board)

C20_Witness ==
    /\ Moved
    /\ total_score_increment > 0
    /\ BoardSum(final_board) = BoardSum(original_board)
    /\ BoardSum(board) = BoardSum(original_board) + 4

====
